---- MODULE Spec2Model ----
(***************************************************************************)
(* Model of FacebookDataProcessor (src/data_processor.py): the flattening  *)
(* of insights records (flatten_insights, process_insights) followed by    *)
(* the numeric coercion (convert_numeric_fields), as the server's          *)
(* get_account_insights tool runs them.                                    *)
(*                                                                         *)
(* Python values are tagged tuples, the tag first, so that two values of   *)
(* different types compare unequal:                                        *)
(*   <<"none">>, <<"str", s>>, <<"int", n>>, <<"float", f>>,               *)
(*   <<"list", <<v1, ..., vn>> >>, <<"dict", << <<k1, v1>>, ... >> >>      *)
(* A dict is the sequence of its items in insertion order, keys unique;    *)
(* keys are strings.                                                       *)
(***************************************************************************)
EXTENDS Integers, Sequences, FiniteSets, TLC

VARIABLES response, action_types, action_value_types, conversion_types,
          pc, writes, flat_data, result

vars == <<response, action_types, action_value_types, conversion_types,
          pc, writes, flat_data, result>>

(***************************************************************************)
(* Bounds of the explored inputs.                                          *)
(***************************************************************************)
MaxFields == 2

MaxRecords == 2

(***************************************************************************)
(* Python values.                                                          *)
(***************************************************************************)
None == <<"none">>

PStr(s) == <<"str", s>>

PInt(n) == <<"int", n>>

PFloat(kind, mant, exp) == <<"float", <<kind, mant, exp>> >>

PList(seq) == <<"list", seq>>

PDict(items) == <<"dict", items>>

IsStr(v) == v[1] = "str"

IsList(v) == v[1] = "list"

IsDict(v) == v[1] = "dict"

Items(v) == v[2]

Range(seq) == {seq[n] : n \in 1..Len(seq)}

Keys(items) == {items[n][1] : n \in 1..Len(items)}

\* position of key k among the items, 0 when absent
IndexOf(items, k) ==
  IF k \in Keys(items)
    THEN CHOOSE n \in 1..Len(items) : items[n][1] = k
    ELSE 0

\* d[k] of a dict whose items are given
Lookup(items, k) == items[IndexOf(items, k)][2]

\* mapping.get(k, default)
Get(v, k, default) ==
  IF k \in Keys(Items(v)) THEN Lookup(Items(v), k) ELSE default

\* x in lst, lst a Python list: some element equals x
In(x, lst) == \E n \in 1..Len(Items(lst)) : Items(lst)[n] = x

\* DictSet that keeps the value already stored under the key
DictSetKeepFirst(items, k, v) ==
  IF k \in Keys(items) THEN items ELSE Append(items, <<k, v>>)

\* flat[k] = v: an existing key keeps its position and takes the new value
DictSet(items, k, v) ==
  IF k \in Keys(items)
    THEN [n \in 1..Len(items) |->
            IF items[n][1] = k THEN <<k, v>> ELSE items[n]]
    ELSE Append(items, <<k, v>>)

Digit(n) == SubSeq("0123456789", n + 1, n + 1)

RECURSIVE NatToStr(_)
NatToStr(n) == IF n < 10 THEN Digit(n) ELSE NatToStr(n \div 10) \o Digit(n % 10)

\* the text an f-string puts for {v}
Format(v) ==
  CASE v[1] = "str" -> v[2]
    [] v[1] = "int" -> IF v[2] < 0 THEN "-" \o NatToStr(0 - v[2]) ELSE NatToStr(v[2])
    [] v[1] = "none" -> "None"
    [] OTHER -> "?"

(***************************************************************************)
(* flatten_insights.  Each branch of the loop over item.items() is given   *)
(* as the sequence of assignments flat[k] = v it performs, in order.       *)
(***************************************************************************)
\* for entry in value: entry.get('action_type', 'unknown'), entry.get('value', 0),
\* the filter test and the assignment under prefix + type
RECURSIVE ListLoop(_, _, _)
ListLoop(prefix, entries, filter) ==
  IF Len(entries) = 0 THEN <<>>
  ELSE LET action == Head(entries)
           action_type == Get(action, "action_type", PStr("unknown"))
           action_val == Get(action, "value", PInt(0))
       IN  (IF filter = None \/ In(action_type, filter)
              THEN << <<prefix \o Format(action_type), action_val>> >>
              ELSE <<>>)
           \o ListLoop(prefix, Tail(entries), filter)

\* for conv_type, conv_val in value.items(): the filter test and the assignment
RECURSIVE DictLoop(_, _, _)
DictLoop(prefix, items, filter) ==
  IF Len(items) = 0 THEN <<>>
  ELSE LET conv_type == Head(items)[1]
           conv_val == Head(items)[2]
       IN  (IF filter = None \/ In(PStr(conv_type), filter)
              THEN << <<prefix \o conv_type, conv_val>> >>
              ELSE <<>>)
           \o DictLoop(prefix, Tail(items), filter)

\* ActionsBranch without the filter test
ActionsBranchUnfiltered(value, types) == ListLoop("action_", Items(value), None)

ActionsBranch(value, types) == ListLoop("action_", Items(value), types)

ActionValuesBranch(value, types) == ListLoop("action_value_", Items(value), types)

\* ConversionsBranch whose mapping branch lacks the filter test
ConversionsBranchMappingUnfiltered(value, types) ==
  IF IsList(value)
    THEN ListLoop("conversion_", Items(value), types)
    ELSE DictLoop("conversion_", Items(value), None)

ConversionsBranch(value, types) ==
  IF IsList(value)
    THEN ListLoop("conversion_", Items(value), types)
    ELSE DictLoop("conversion_", Items(value), types)

ConversionValuesBranch(value, types) ==
  IF IsList(value)
    THEN ListLoop("conversion_value_", Items(value), types)
    ELSE DictLoop("conversion_value_", Items(value), types)

VideoBranch(value) ==
  [n \in 1..Len(Items(value)) |->
     << "video_thruplay_watched_actions_"
          \o Format(Get(Items(value)[n], "action_type", PStr("unknown"))),
        Get(Items(value)[n], "value", PInt(0)) >>]

NestedBranch(key, value) ==
  [n \in 1..Len(Items(value)) |->
     <<key \o "_" \o Items(value)[n][1], Items(value)[n][2]>>]

ElseBranch(key, value) ==
  IF key = "date_stop" THEN <<>> ELSE << <<key, value>> >>

\* FieldWrites that filters conversion_values by the action-value filter
FieldWritesOwnValueFilter(key, value, at, avt, ct) ==
  CASE key = "actions" /\ IsList(value) -> ActionsBranch(value, at)
    [] key = "action_values" /\ IsList(value) -> ActionValuesBranch(value, avt)
    [] key = "conversions" /\ (IsList(value) \/ IsDict(value)) ->
         ConversionsBranch(value, ct)
    [] key = "conversion_values" /\ (IsList(value) \/ IsDict(value)) ->
         ConversionValuesBranch(value, avt)
    [] key = "video_thruplay_watched_actions" /\ IsList(value) ->
         VideoBranch(value)
    [] OTHER -> IF IsDict(value) THEN NestedBranch(key, value)
                                 ELSE ElseBranch(key, value)

\* the if/elif chain of the loop body: the assignments made for one field
FieldWrites(key, value, at, avt, ct) ==
  CASE key = "actions" /\ IsList(value) -> ActionsBranch(value, at)
    [] key = "action_values" /\ IsList(value) -> ActionValuesBranch(value, avt)
    [] key = "conversions" /\ (IsList(value) \/ IsDict(value)) ->
         ConversionsBranch(value, ct)
    [] key = "conversion_values" /\ (IsList(value) \/ IsDict(value)) ->
         ConversionValuesBranch(value, ct)
    [] key = "video_thruplay_watched_actions" /\ IsList(value) ->
         VideoBranch(value)
    [] OTHER -> IF IsDict(value) THEN NestedBranch(key, value)
                                 ELSE ElseBranch(key, value)

\* the branches that call entry.get(...) on every element of a list
CallsGet(key, value) ==
  /\ IsList(value)
  /\ key \in {"actions", "action_values", "conversions", "conversion_values",
              "video_thruplay_watched_actions"}

\* AttributeError: item.items() on a non-mapping, or .get on a non-mapping entry
FlattenRaises(item) ==
  \/ ~IsDict(item)
  \/ \E n \in 1..Len(Items(item)) :
       /\ CallsGet(Items(item)[n][1], Items(item)[n][2])
       /\ \E m \in 1..Len(Items(Items(item)[n][2])) :
            ~IsDict(Items(Items(item)[n][2])[m])

\* the assignments of a whole call, per field of the item
ItemWrites(item, at, avt, ct) ==
  [n \in 1..Len(Items(item)) |->
     FieldWrites(Items(item)[n][1], Items(item)[n][2], at, avt, ct)]

RECURSIVE Concat(_)
Concat(seqs) == IF Len(seqs) = 0 THEN <<>> ELSE Head(seqs) \o Concat(Tail(seqs))

RECURSIVE ApplyWrites(_, _)
ApplyWrites(flat, ws) ==
  IF Len(ws) = 0 THEN flat
  ELSE ApplyWrites(DictSet(flat, Head(ws)[1], Head(ws)[2]), Tail(ws))

\* the dict flatten_insights returns (when it does not raise)
flatten_insights(item, at, avt, ct) ==
  ApplyWrites(<<>>, Concat(ItemWrites(item, at, avt, ct)))

(***************************************************************************)
(* process_insights.                                                       *)
(***************************************************************************)
\* not v
Falsy(v) ==
  CASE v[1] = "none" -> TRUE
    [] v[1] = "list" -> Len(v[2]) = 0
    [] v[1] = "dict" -> Len(v[2]) = 0
    [] v[1] = "str" -> v[2] = ""
    [] v[1] = "int" -> v[2] = 0
    [] OTHER -> FALSE

ResponseData(resp) == Get(resp, "data", PList(<<>>))

\* the call raises when flattening one of the items does
ProcessRaises(resp) ==
  /\ ~Falsy(ResponseData(resp))
  /\ \E n \in 1..Len(Items(ResponseData(resp))) :
       FlattenRaises(Items(ResponseData(resp))[n])

RECURSIVE FlattenEach(_, _, _, _)
FlattenEach(data, at, avt, ct) ==
  IF Len(data) = 0 THEN <<>>
  ELSE <<flatten_insights(Head(data), at, avt, ct)>>
         \o FlattenEach(Tail(data), at, avt, ct)

\* process_insights that appends only the non-empty flattened records
process_insights_skip_empty(resp, at, avt, ct) ==
  IF Falsy(ResponseData(resp)) THEN <<>>
  ELSE SelectSeq(FlattenEach(Items(ResponseData(resp)), at, avt, ct),
                 LAMBDA flat : Len(flat) > 0)

\* the list process_insights returns (when it does not raise)
process_insights(resp, at, avt, ct) ==
  IF Falsy(ResponseData(resp)) THEN <<>>
  ELSE FlattenEach(Items(ResponseData(resp)), at, avt, ct)

(***************************************************************************)
(* convert_numeric_fields.                                                 *)
(***************************************************************************)
numeric_patterns ==
  <<"spend", "impressions", "clicks", "reach", "frequency",
    "ctr", "cpc", "cpm", "conversions", "cost", "action_",
    "value", "video", "budget">>

Char(s, n) == SubSeq(s, n, n)

Upper == "ABCDEFGHIJKLMNOPQRSTUVWXYZ"

LowerLetters == "abcdefghijklmnopqrstuvwxyz"

UpperSet == {Char(Upper, n) : n \in 1..26}

\* the lower-case letter of every upper-case one
LowerTable ==
  [c \in UpperSet |-> Char(LowerLetters, CHOOSE n \in 1..26 : Char(Upper, n) = c)]

LowerChar(c) == IF c \in UpperSet THEN LowerTable[c] ELSE c

\* str.lower()
RECURSIVE Lower(_)
Lower(s) ==
  IF Len(s) = 0 THEN ""
  ELSE LowerChar(Char(s, 1)) \o Lower(SubSeq(s, 2, Len(s)))

\* pattern in s, both strings
Contains(pattern, s) ==
  \E n \in 1..(Len(s) - Len(pattern) + 1) :
     SubSeq(s, n, n + Len(pattern) - 1) = pattern

\* MatchesPattern without the lower-casing of the key
MatchesPatternCaseSensitive(key) ==
  \E n \in 1..Len(numeric_patterns) : Contains(numeric_patterns[n], key)

\* any(pattern in key.lower() for pattern in numeric_patterns)
MatchesPattern(key) ==
  LET lowered == Lower(key)
  IN  \E n \in 1..Len(numeric_patterns) : Contains(numeric_patterns[n], lowered)

Whitespace == {" ", "\t", "\n"}

DigitChars == {Digit(n) : n \in 0..9}

DigitTable == [c \in DigitChars |-> CHOOSE n \in 0..9 : Digit(n) = c]

DigitVal(c) == DigitTable[c]

RECURSIVE Strip(_)
Strip(s) ==
  IF Len(s) = 0 THEN s
  ELSE IF Char(s, 1) \in Whitespace THEN Strip(SubSeq(s, 2, Len(s)))
  ELSE IF Char(s, Len(s)) \in Whitespace THEN Strip(SubSeq(s, 1, Len(s) - 1))
  ELSE s

\* first position of a character of cs in s, 0 when there is none
FirstOf(s, cs) ==
  IF \E n \in 1..Len(s) : Char(s, n) \in cs
    THEN CHOOSE n \in 1..Len(s) :
           /\ Char(s, n) \in cs
           /\ \A m \in 1..(n - 1) : Char(s, m) \notin cs
    ELSE 0

\* digits, single underscores allowed between two digits
DigitPart(s) ==
  /\ Len(s) > 0
  /\ \A n \in 1..Len(s) : Char(s, n) \in DigitChars \cup {"_"}
  /\ Char(s, 1) # "_"
  /\ Char(s, Len(s)) # "_"
  /\ \A n \in 1..(Len(s) - 1) : ~(Char(s, n) = "_" /\ Char(s, n + 1) = "_")

RECURSIVE DigitsValue(_, _)
DigitsValue(s, acc) ==
  IF Len(s) = 0 THEN acc
  ELSE DigitsValue(SubSeq(s, 2, Len(s)),
                   IF Char(s, 1) = "_" THEN acc ELSE 10 * acc + DigitVal(Char(s, 1)))

RECURSIVE CountDigits(_)
CountDigits(s) ==
  IF Len(s) = 0 THEN 0
  ELSE (IF Char(s, 1) = "_" THEN 0 ELSE 1) + CountDigits(SubSeq(s, 2, Len(s)))

\* a finite float as mantissa * 10^exp, the mantissa without trailing zeros
RECURSIVE Normal(_, _)
Normal(mant, exp) ==
  IF mant = 0 THEN PFloat("fin", 0, 0)
  ELSE IF mant % 10 = 0 THEN Normal(mant \div 10, exp + 1)
  ELSE PFloat("fin", mant, exp)

\* float(s) for a string: <<"ok", number>> or <<"raise", "ValueError">>
ParseFloat(s) ==
  LET t == Strip(s)
      signed == Len(t) > 0 /\ Char(t, 1) \in {"+", "-"}
      sign == IF signed /\ Char(t, 1) = "-" THEN 0 - 1 ELSE 1
      body == IF signed THEN SubSeq(t, 2, Len(t)) ELSE t
      e == FirstOf(body, {"e", "E"})
      mantissa == IF e = 0 THEN body ELSE SubSeq(body, 1, e - 1)
      exponent == IF e = 0 THEN "" ELSE SubSeq(body, e + 1, Len(body))
      esigned == Len(exponent) > 0 /\ Char(exponent, 1) \in {"+", "-"}
      esign == IF esigned /\ Char(exponent, 1) = "-" THEN 0 - 1 ELSE 1
      edigits == IF esigned THEN SubSeq(exponent, 2, Len(exponent)) ELSE exponent
      dot == FirstOf(mantissa, {"."})
      whole == IF dot = 0 THEN mantissa ELSE SubSeq(mantissa, 1, dot - 1)
      frac == IF dot = 0 THEN "" ELSE SubSeq(mantissa, dot + 1, Len(mantissa))
      valid == /\ whole = "" \/ DigitPart(whole)
               /\ frac = "" \/ DigitPart(frac)
               /\ ~(whole = "" /\ frac = "")
               /\ e = 0 \/ DigitPart(edigits)
      expo == IF e = 0 THEN 0 ELSE esign * DigitsValue(edigits, 0)
  IN  IF Lower(body) \in {"inf", "infinity"} THEN <<"ok", PFloat("inf", sign, 0)>>
      ELSE IF Lower(body) = "nan" THEN <<"ok", PFloat("nan", 0, 0)>>
      ELSE IF valid
        THEN <<"ok", Normal(sign * DigitsValue(whole \o frac, 0),
                            expo - CountDigits(frac))>>
        ELSE <<"raise", "ValueError">>

\* the value stored under key in the converted record
ConvertValue(key, value) ==
  IF MatchesPattern(key)
    THEN IF IsStr(value)
           THEN LET parsed == ParseFloat(value[2])
                IN  IF parsed[1] = "ok" THEN parsed[2] ELSE value
           ELSE value
    ELSE value

\* ConvertRecord that stores every value under the lower-cased key
ConvertRecordLowerKeys(converted, items) ==
  [n \in 1..Len(items) |->
     <<Lower(items[n][1]), ConvertValue(items[n][1], items[n][2])>>]

\* converted = {} and one assignment converted[key] = ... per item of the record
RECURSIVE ConvertRecord(_, _)
ConvertRecord(converted, items) ==
  IF Len(items) = 0 THEN converted
  ELSE ConvertRecord(
         DictSet(converted, Head(items)[1],
                 ConvertValue(Head(items)[1], Head(items)[2])),
         Tail(items))

\* result.append(converted) for each record of data
convert_numeric_fields(data) ==
  [n \in 1..Len(data) |-> ConvertRecord(<<>>, data[n])]

(***************************************************************************)
(* The explored inputs.                                                    *)
(***************************************************************************)
\* an ActionEntry {action_type: t, value: v}
Entry(t, v) == PDict(<< <<"action_type", PStr(t)>>, <<"value", PStr(v)>> >>)

\* the fields a record is built from
FieldPool ==
  << <<"actions", PList(<<Entry("lead", "12"), Entry("value_x", "5"),
                          Entry("lead", "13")>>)>>,
     <<"actions", PList(<<PDict(<< <<"value", PStr("4")>> >>),
                          PDict(<< <<"action_type", PStr("x")>> >>)>>)>>,
     <<"actions", PList(<<Entry("lead", "12"), PStr("oops")>>)>>,
     <<"action_values", PList(<<Entry("x", "7"), Entry("lead", "8")>>)>>,
     <<"conversions", PDict(<< <<"schedule_total", PStr("296")>>,
                               <<"x", PStr("1")>> >>)>>,
     <<"conversions", PList(<<Entry("schedule_total", "296"), Entry("x", "1")>>)>>,
     <<"conversion_values", PDict(<< <<"x", PStr("2")>>, <<"lead", PStr("3")>> >>)>>,
     <<"conversion_values", PList(<<Entry("x", "2"), Entry("lead", "3")>>)>>,
     <<"video_thruplay_watched_actions", PList(<<Entry("video_view", "9")>>)>>,
     <<"creative", PDict(<< <<"id", PStr("1")>>,
                            <<"asset", PDict(<< <<"title", PStr("Ad")>> >>)>> >>)>>,
     <<"date", PDict(<< <<"stop", PStr("2025-01-31")>> >>)>>,
     <<"date_stop", PStr("2025-01-31")>>,
     <<"date_stop", PDict(<< <<"a", PStr("1")>> >>)>>,
     <<"date_stop", PList(<<PStr("2025-01-31")>>)>>,
     <<"spend", PStr("100.50")>>,
     <<"spend", PStr("N/A")>>,
     <<"campaign_name", PStr("100")>>,
     <<"CTR", PStr(" 1.5 ")>>,
     <<"clicks", PInt(5)>>,
     <<"action_value_x", PStr("1_0e-1")>>,
     <<"conversion", PDict(<< <<"x", PStr("5")>> >>)>>,
     <<"tags", PList(<<PStr("a")>>)>> >>

\* the filters a caller passes: none, an empty list, a list of types
FilterPool == <<None, PList(<<>>), PList(<<PStr("lead"), PStr("x")>>)>>

\* the filters of one call, as indices of FilterPool: action_types,
\* action_value_types, conversion_types
FilterChoices ==
  {<<1, 1, 1>>, <<2, 2, 2>>, <<3, 3, 3>>, <<1, 2, 3>>, <<2, 3, 1>>, <<3, 1, 2>>}

\* the records of the lists of more than one record
RecordPool ==
  << PDict(<<FieldPool[1], FieldPool[15]>>),
     PDict(<<FieldPool[5], FieldPool[12]>>),
     PDict(<<FieldPool[2], FieldPool[18]>>),
     PDict(<<FieldPool[3], FieldPool[15]>>),
     PDict(<<>>),
     PStr("oops") >>

\* index sequences of at most MaxFields fields with pairwise different keys
FieldChoices ==
  UNION {{f \in [1..n -> 1..Len(FieldPool)] :
            \A a, b \in 1..n : a # b => FieldPool[f[a]][1] # FieldPool[f[b]][1]}
         : n \in 0..MaxFields}

RecordOf(f) == PDict([n \in 1..Len(f) |-> FieldPool[f[n]]])

RecordChoices == UNION {[1..n -> 1..Len(RecordPool)] : n \in 0..MaxRecords}

DataOf(g) == PList([n \in 1..Len(g) |-> RecordPool[g[n]]])

Envelope(data) == PDict(<< <<"data", data>>, <<"paging", PDict(<<>>)>> >>)

(***************************************************************************)
(* The pipeline: process_insights on a response, then                      *)
(* convert_numeric_fields on what it returned.                             *)
(***************************************************************************)
Init ==
  /\ \/ response = PDict(<< <<"paging", PDict(<<>>)>> >>)
     \/ response = Envelope(None)
     \/ \E f \in FieldChoices : response = Envelope(PList(<<RecordOf(f)>>))
     \/ \E g \in RecordChoices : response = Envelope(DataOf(g))
  /\ \E f \in FilterChoices :
       /\ action_types = FilterPool[f[1]]
       /\ action_value_types = FilterPool[f[2]]
       /\ conversion_types = FilterPool[f[3]]
  /\ pc = "start"
  /\ writes = <<>>
  /\ flat_data = <<>>
  /\ result = <<>>

ProcessInsights ==
  /\ pc = "start"
  /\ IF ProcessRaises(response)
       THEN /\ pc' = "raised"
            /\ writes' = <<>>
            /\ flat_data' = <<>>
       ELSE /\ pc' = "processed"
            /\ writes' =
                 IF Falsy(ResponseData(response)) THEN <<>>
                 ELSE [n \in 1..Len(Items(ResponseData(response))) |->
                         ItemWrites(Items(ResponseData(response))[n], action_types,
                                    action_value_types, conversion_types)]
            /\ flat_data' = process_insights(response, action_types,
                                             action_value_types, conversion_types)
  /\ UNCHANGED <<response, action_types, action_value_types, conversion_types,
                 result>>

ConvertNumericFields ==
  /\ pc = "processed"
  /\ result' = convert_numeric_fields(flat_data)
  /\ pc' = "converted"
  /\ UNCHANGED <<response, action_types, action_value_types, conversion_types,
                 writes, flat_data>>

Next == ProcessInsights \/ ConvertNumericFields

Spec == Init /\ [][Next]_vars

(***************************************************************************)
(* Vocabulary of the properties.                                           *)
(***************************************************************************)
Returned == pc \in {"processed", "converted"}

\* the records handed to process_insights
Data == IF Falsy(ResponseData(response)) THEN <<>> ELSE Items(ResponseData(response))

HasPrefix(s, p) == Len(s) >= Len(p) /\ SubSeq(s, 1, Len(p)) = p

FieldKey(n, j) == Items(Data[n])[j][1]

FieldValue(n, j) == Items(Data[n])[j][2]

Fields(n) == 1..Len(Items(Data[n]))

\* the record flattened with the filters of the call
Flat(item) == flatten_insights(item, action_types, action_value_types, conversion_types)

\* the assignments a list of entries is expected to give under an allow-list
ExpectedEmits(prefix, entries, filter) ==
  LET type(e) == Get(e, "action_type", PStr("unknown"))
      passing == SelectSeq(entries, LAMBDA e : filter = None \/ In(type(e), filter))
  IN  [k \in 1..Len(passing) |->
         <<prefix \o Format(type(passing[k])), Get(passing[k], "value", PInt(0))>>]

\* the list of ActionEntry holding the pairs of a mapping, in the same order
AsEntries(value) ==
  IF IsDict(value)
    THEN PList([k \in 1..Len(Items(value)) |->
                  PDict(<< <<"action_type", PStr(Items(value)[k][1])>>,
                           <<"value", Items(value)[k][2]>> >>)])
    ELSE value

\* C1: no record returned by flatten_insights has the key date_stop, whatever
\* the filters and whatever the other fields of the input record are.
C1_DateStopNeverPresent ==
  Returned => \A n \in 1..Len(flat_data) : "date_stop" \notin Keys(flat_data[n])

\* the record without its date_stop field
WithoutDateStop(item) ==
  PDict(SelectSeq(Items(item), LAMBDA f : f[1] # "date_stop"))

\* C2: a field whose key is date_stop contributes nothing to the output,
\* whatever the shape of its value: flatten(r) = flatten(r without date_stop).
C2_DateStopDroppedUnconditionally ==
  Returned => \A n \in 1..Len(Data) : flat_data[n] = Flat(WithoutDateStop(Data[n]))

\* the record with conversions and conversion_values in list shape
ListShaped(item) ==
  PDict([j \in 1..Len(Items(item)) |->
           IF Items(item)[j][1] \in {"conversions", "conversion_values"}
             THEN <<Items(item)[j][1], AsEntries(Items(item)[j][2])>>
             ELSE Items(item)[j]])

\* C3: flattening conversions / conversion_values given as a mapping
\* type -> value gives the same record as flattening the list of entries with
\* the same pairs in the same order, under every conversion filter, and both
\* shapes emit conversion_{type} / conversion_value_{type} keys only.
C3_ShapeEquivalence ==
  Returned =>
    \A n \in 1..Len(Data) :
      /\ flat_data[n] = Flat(ListShaped(Data[n]))
      /\ \A j \in Fields(n) :
           /\ FieldKey(n, j) = "conversions"
                /\ (IsList(FieldValue(n, j)) \/ IsDict(FieldValue(n, j)))
              => \A k \in 1..Len(writes[n][j]) :
                   HasPrefix(writes[n][j][k][1], "conversion_")
           /\ FieldKey(n, j) = "conversion_values"
                /\ (IsList(FieldValue(n, j)) \/ IsDict(FieldValue(n, j)))
              => \A k \in 1..Len(writes[n][j]) :
                   HasPrefix(writes[n][j][k][1], "conversion_value_")

\* a mapping-shaped conversions field was flattened under a filter that keeps
\* one of its types and rejects another
C3_Witness ==
  /\ Returned
  /\ conversion_types = FilterPool[3]
  /\ \E n \in 1..Len(Data) :
       /\ \E j \in Fields(n) :
            FieldKey(n, j) = "conversions" /\ IsDict(FieldValue(n, j))
       /\ "conversion_x" \in Keys(flat_data[n])
       /\ "conversion_schedule_total" \notin Keys(flat_data[n])

\* C4: for actions and action_values, with the filter absent every entry of
\* the list is emitted as action_{type} (action_value_{type}); with the filter
\* present exactly the entries whose type is in the filter are emitted, each
\* with the entry's value.
C4_AllowListFiltering ==
  Returned =>
    \A n \in 1..Len(Data) : \A j \in Fields(n) :
      /\ FieldKey(n, j) = "actions" /\ IsList(FieldValue(n, j))
         => /\ writes[n][j]
                 = ExpectedEmits("action_", Items(FieldValue(n, j)), action_types)
            /\ \A k \in 1..Len(writes[n][j]) :
                 writes[n][j][k][1] \in Keys(flat_data[n])
      /\ FieldKey(n, j) = "action_values" /\ IsList(FieldValue(n, j))
         => /\ writes[n][j]
                 = ExpectedEmits("action_value_", Items(FieldValue(n, j)),
                                 action_value_types)
            /\ \A k \in 1..Len(writes[n][j]) :
                 writes[n][j][k][1] \in Keys(flat_data[n])

\* an actions list was flattened under a filter that keeps some of its
\* entries and rejects another
C4_Witness ==
  /\ Returned
  /\ action_types = FilterPool[3]
  /\ \E n \in 1..Len(Data) : \E j \in Fields(n) :
       /\ FieldKey(n, j) = "actions"
       /\ IsList(FieldValue(n, j))
       /\ Len(writes[n][j]) = 2
       /\ Len(Items(FieldValue(n, j))) = 3
       /\ Lookup(flat_data[n], "action_lead") = PStr("13")

\* the items of a flat record whose key starts with conversion_
ConversionPart(flat) == SelectSeq(flat, LAMBDA f : HasPrefix(f[1], "conversion_"))

\* C5: conversion_values is filtered by the conversion filter and by nothing
\* else: what the field emits is determined by the field and the conversion
\* filter, and calls that differ only in the action filter or the action-value
\* filter give the same conversion_ and conversion_value_ keys and values.
C5_SharedConversionFilter ==
  Returned =>
    \A n \in 1..Len(Data) :
      /\ \A j \in Fields(n) :
           FieldKey(n, j) = "conversion_values"
             /\ (IsList(FieldValue(n, j)) \/ IsDict(FieldValue(n, j)))
           => writes[n][j]
                = ExpectedEmits("conversion_value_",
                                Items(AsEntries(FieldValue(n, j))), conversion_types)
      /\ \A a, b \in 1..Len(FilterPool) :
           ConversionPart(flatten_insights(Data[n], FilterPool[a], FilterPool[b],
                                           conversion_types))
             = ConversionPart(flat_data[n])

\* conversion_values was flattened under a conversion filter that differs
\* from the action-value filter of the same call
C5_Witness ==
  /\ Returned
  /\ conversion_types = FilterPool[3]
  /\ action_value_types = FilterPool[2]
  /\ \E n \in 1..Len(Data) :
       /\ \E j \in Fields(n) : FieldKey(n, j) = "conversion_values"
       /\ "conversion_value_x" \in Keys(flat_data[n])

\* C6: assignments happen in the record's field order and the entries' order,
\* and every output key holds the value of the last assignment made to it.
C6_LaterWriteWins ==
  Returned =>
    \A n \in 1..Len(Data) :
      LET ws == Concat(writes[n])
      IN  /\ Len(writes[n]) = Len(Items(Data[n]))
          /\ Keys(flat_data[n]) = {ws[k][1] : k \in 1..Len(ws)}
          /\ Cardinality(Keys(flat_data[n])) = Len(flat_data[n])
          /\ \A k \in 1..Len(ws) :
               (\A m \in (k + 1)..Len(ws) : ws[m][1] # ws[k][1])
                 => Lookup(flat_data[n], ws[k][1]) = ws[k][2]

\* two fields of one record assigned different values to the same key
C6_Witness ==
  /\ Returned
  /\ \E n \in 1..Len(Data) : \E i, j \in Fields(n) :
       /\ i < j
       /\ \E a \in 1..Len(writes[n][i]) : \E b \in 1..Len(writes[n][j]) :
            /\ writes[n][i][a][1] = writes[n][j][b][1]
            /\ writes[n][i][a][2] # writes[n][j][b][2]
            /\ Lookup(flat_data[n], writes[n][j][b][1]) = writes[n][j][b][2]

\* the vocabulary of numeric words
Vocabulary ==
  {"spend", "impressions", "clicks", "reach", "frequency", "ctr", "cpc", "cpm",
   "conversions", "cost", "action_", "value", "video", "budget"}

\* C7: convert_numeric_fields replaces a value by its parsed number exactly
\* when the lower-cased key contains a vocabulary word, the value is a string
\* and the string parses as a number; in every other case the value is kept.
C7_CoercionRule ==
  pc = "converted" =>
    \A n \in 1..Len(flat_data) : \A j \in 1..Len(flat_data[n]) :
      LET key == flat_data[n][j][1]
          value == flat_data[n][j][2]
          candidate == /\ \E w \in Vocabulary : Contains(w, Lower(key))
                       /\ IsStr(value)
                       /\ ParseFloat(value[2])[1] = "ok"
      IN  /\ key \in Keys(result[n])
          /\ candidate => /\ Lookup(result[n], key) = ParseFloat(value[2])[2]
                          /\ Lookup(result[n], key)[1] = "float"
          /\ ~candidate => Lookup(result[n], key) = value

\* one record had a value parsed under an upper-case key and a numeric string
\* kept under a key outside the vocabulary
C7_Witness ==
  /\ pc = "converted"
  /\ \E n \in 1..Len(result) :
       /\ <<"CTR", PStr(" 1.5 ")>> \in Range(flat_data[n])
       /\ <<"CTR", PFloat("fin", 15, 0 - 1)>> \in Range(result[n])
       /\ <<"campaign_name", PStr("100")>> \in Range(result[n])

\* C8: convert_numeric_fields is a batch map: as many records out as in, each
\* with the key set of the record at the same position, and the input list
\* and its records are what they were before the call.
C8_PureBatchMap ==
  pc = "converted" =>
    /\ Len(result) = Len(flat_data)
    /\ \A n \in 1..Len(flat_data) :
         /\ Keys(result[n]) = Keys(flat_data[n])
         /\ Len(result[n]) = Len(flat_data[n])
    /\ flat_data = process_insights(response, action_types, action_value_types,
                                    conversion_types)

\* a list of two records was converted, a value of it retyped under a key
\* that is not lower-case
C8_Witness ==
  /\ pc = "converted"
  /\ \E n \in 1..Len(result) :
       /\ "CTR" \in Keys(result[n])
       /\ result[n] # flat_data[n]
  /\ Len(result) = 2

\* C9: process_insights returns the empty list when the response has no data
\* key or data is empty; otherwise the list it returns has the length of data
\* and its n-th element is flatten_insights of the n-th record with the same
\* filters; it fails only where flatten_insights of some record does.
C9_ProcessInsights ==
  /\ Returned =>
       /\ "data" \notin Keys(Items(response)) => flat_data = <<>>
       /\ Falsy(ResponseData(response)) => flat_data = <<>>
       /\ Len(flat_data) = Len(Data)
       /\ \A n \in 1..Len(Data) : flat_data[n] = Flat(Data[n])
  /\ pc = "raised" => \E n \in 1..Len(Data) : FlattenRaises(Data[n])
  /\ pc # "start" /\ (\A n \in 1..Len(Data) : ~FlattenRaises(Data[n])) => Returned

\* a list of two records with different results was processed, the empty
\* record among them
C9_Witness ==
  /\ pc = "processed"
  /\ Len(flat_data) = 2
  /\ flat_data[1] # flat_data[2]
  /\ Len(flat_data[1]) = 0 \/ Len(flat_data[2]) = 0

\* C10: process_insights never fails a batch because a record or a field is
\* malformed: it returns a list, and entries merely missing action_type or
\* value are emitted under unknown and with 0.
C10_NeverFailsBatch ==
  /\ pc # "raised"
  /\ Returned =>
       \A n \in 1..Len(Data) : \A j \in Fields(n) :
         FieldKey(n, j) = "actions" /\ IsList(FieldValue(n, j))
           /\ action_types = None
         => \A k \in 1..Len(Items(FieldValue(n, j))) :
              LET e == Items(FieldValue(n, j))[k]
              IN  /\ "action_type" \notin Keys(Items(e))
                       => writes[n][j][k][1] = "action_unknown"
                  /\ "value" \notin Keys(Items(e)) => writes[n][j][k][2] = PInt(0)

\* a string, an integer or a floating-point number
IsScalar(v) == v[1] \in {"str", "int", "float"}

\* C11: every value of every record returned by process_insights followed by
\* convert_numeric_fields, called without filters as get_account_insights
\* calls them, is a string, an integer or a floating-point number.
C11_ScalarOutput ==
  /\ pc = "converted"
  /\ action_types = None
  /\ action_value_types = None
  /\ conversion_types = None
  => \A n \in 1..Len(result) : \A j \in 1..Len(result[n]) :
       IsScalar(result[n][j][2])

====
